---- MODULE Spec2Model ----
(***************************************************************************)
(* Polyp-segmentation training and evaluation control loops.               *)
(*                                                                         *)
(*   train.py  main(hp, num_epochs, resume, name)  and  validation(...)    *)
(*   eval.py   evaluate(model, test_loader, device, result_folder)         *)
(*                                                                         *)
(* Tensors are abstracted to what the control flow reads from them: the    *)
(* batch size (size(0)), the scalar loss / dice values the metric          *)
(* functions return, and a counter of the optimizer updates that produced  *)
(* the parameter blob.  Float scalars are exact rationals [n, d].          *)
(***************************************************************************)
EXTENDS Integers, Sequences, FiniteSets

\* ------------------------------------------------------------------ bounds
\* largest training-set size (samples)
MaxTrain == 2

\* largest validation-set size (samples)
MaxVal == 2

\* largest --epochs argument
MaxEpochs == 2

\* invocations of main() over the life of the one experiment name
MaxRuns == 2

\* largest test-set size (samples)
MaxTest == 3

\* ------------------------------------------------------------ input values
\* hp.batch_size and hp.validation_interval
BatchSizes == {1, 2}
Intervals == {1, 2, 3}

\* what one batch yields: criterion(outputs, labels) and
\* metrics.dice_coeff(outputs, labels), two functions of the same pair of
\* tensors, in abstract units
Outcomes == {[loss |-> 1, dice |-> 1], [loss |-> 2, dice |-> 0]}

\* sigmoid outputs of one element, in tenths: at the threshold and above it
Probs == {6, 7}

\* H * W, the elements of one sample's [1, H, W] mask
MaskShapes == {1, 2}

\* ------------------------------------------------------- program constants
\* `best_loss = 999`
InitBestLoss == 999

\* ReduceLROnPlateau(..., patience=5, ...)
Patience == 5

\* `outputs > 0.6`, in tenths
Threshold == 6

\* ------------------------------------------------------------ pure helpers
RECURSIVE GCD(_, _)
GCD(a, b) ==
    IF b = 0 THEN a ELSE GCD(b, a % b)

\* a float scalar as an exact fraction in lowest terms
Rat(n, d) ==
    LET g == GCD(n, d) IN IF g = 0 THEN [n |-> n, d |-> d] ELSE [n |-> n \div g, d |-> d \div g]

RLess(a, b) ==
    a.n * b.d < b.n * a.d

RLeq(a, b) ==
    a.n * b.d <= b.n * a.d

\* Python's min(a, b): the first argument unless the second is smaller
PyMin(a, b) ==
    IF RLess(b, a) THEN b ELSE a

\* str(n) for n >= 0, as the sequence of its decimal digits
RECURSIVE Dec(_)
Dec(n) ==
    IF n < 10 THEN <<n>> ELSE Append(Dec(n \div 10), n % 10)

\* "%04d" % n : decimal, left-padded with zeros to at least four digits
Fmt04(n) ==
    LET d == Dec(n) IN
    IF Len(d) >= 4 THEN d ELSE [i \in 1..(4 - Len(d)) |-> 0] \o d

\* os.path.join(checkpoint_dir, "%s_checkpoint_%04d.pt" % (name, step));
\* directory, experiment name and extension are the same for every save of
\* the experiment, so a path is identified by its formatted digits
SavePath(s) ==
    Fmt04(s)

\* len(DataLoader(dataset of n samples, batch_size = b)), drop_last = False
NumBatches(n, b) ==
    (n + b - 1) \div b

\* size(0) of the i-th batch (0-based) of that loader
BatchSizeAt(n, b, i) ==
    IF (i + 1) * b <= n THEN b ELSE n - i * b

\* metrics.MetricTracker: sum += val * n; count += n; avg = sum / count
NewTracker ==
    [sum |-> 0, count |-> 0]

TrackerUpdate(t, val, n) ==
    [sum |-> t.sum + val * n, count |-> t.count + n]

TrackerAvg(t) ==
    Rat(t.sum, t.count)

NoTracker ==
    [sum |-> -1, count |-> -1]


\* -------------------------------------------------------------------- state
VARIABLES
    nTrain, nVal, batchSize, valInterval, maskElems,
    pc, runs, files, numEpochs, resume, checkpoint,
    best_loss, start_epoch, epoch, step, idx, curBatch,
    modelTraining, gradEnabled, weights, optState, lr_scheduler,
    train_acc, train_loss, valid_acc, valid_loss, valIdx, valid_metrics,
    batchesDone, events, valFwd, valCall, lastSave,
    nTest, ePc, batch_idx, evalB, sample_i, num_samples, dice_sum, hd95_sum,
    pixel_correct, pixel_total, outFiles, evalResult, evalHist, allMatched,
    mPc, shownEpoch

envVars == <<nTrain, nVal, batchSize, valInterval, maskElems>>
runVars == <<pc, runs, numEpochs, resume, checkpoint, start_epoch>>
loopVars == <<epoch, step, idx, curBatch, batchesDone>>
modelVars == <<modelTraining, gradEnabled, weights, optState>>
trainTrackers == <<train_acc, train_loss>>
valVars == <<valid_acc, valid_loss, valIdx, valid_metrics, valFwd, valCall>>
storeVars == <<files, lastSave>>
evalVars == <<nTest, ePc, batch_idx, evalB, sample_i, num_samples, dice_sum, hd95_sum,
              pixel_correct, pixel_total, outFiles, evalResult, evalHist, allMatched>>
mainVars == <<mPc, shownEpoch>>
vars == <<evalVars, mainVars, envVars, runVars, loopVars, modelVars, trainTrackers, valVars, storeVars,
          best_loss, lr_scheduler, events>>

\* a float that has no value yet (also avg of a tracker that saw no update)
Undefined ==
    [n |-> 0, d |-> 0]

\* +inf, ReduceLROnPlateau's initial best in mode 'min'
Infinity ==
    [n |-> 1, d |-> 0]

NoMetrics ==
    [valid_loss |-> Undefined, valid_acc |-> Undefined]

\* torch.optim.lr_scheduler.ReduceLROnPlateau(optimizer, mode='min',
\* factor=0.1, patience=5, min_lr=1e-6): best metric, bad rounds in a row,
\* number of LR reductions so far
NewScheduler ==
    [best |-> Infinity, num_bad_epochs |-> 0, reductions |-> 0]

\* is_better in mode 'min', threshold_mode 'rel', threshold 1e-4:
\* a < best * (1 - 1e-4)
IsBetter(a, best) ==
    a.n * 10000 * best.d < best.n * 9999 * a.d

SchedStep(s, metric) ==
    LET better == IsBetter(metric, s.best)
        bad == IF better THEN 0 ELSE s.num_bad_epochs + 1
    IN  [best |-> IF better THEN metric ELSE s.best,
         num_bad_epochs |-> IF bad > Patience THEN 0 ELSE bad,
         reductions |-> IF bad > Patience THEN s.reductions + 1 ELSE s.reductions]

\* one entry of the per-batch trace of what followed the optimizer step
Ev(op, loss, path, s) ==
    [op |-> op, loss |-> loss, path |-> path, step |-> s]

\* `step = 0` before the epoch loop; the loaded record is not consulted
StartStep(ckpt) ==
    0

\* the validation test taken one step late
ValidationDueOffByOne(s) ==
    s % valInterval = 1 % valInterval

\* `if step % hp.validation_interval == 0`
ValidationDue(s) ==
    s % valInterval = 0

\* best_loss overwritten with the latest validation loss
BestLossLatest(v, b) ==
    v

\* `best_loss = min(valid_metrics["valid_loss"], best_loss)`
BestLossUpdate(v, b) ==
    PyMin(v, b)

\* validation() returning without model.train()
ModeLeftInEval ==
    FALSE

\* validation() ends with model.train()
ModeAfterValidation ==
    TRUE

\* the counter advanced by two
StepIncrTwo(s) ==
    s + 2

\* `step += 1`
StepIncr(s) ==
    s + 1

\* the dict built as if `step += 1` had already run
RecordNextStep(s, e, w, b, o) ==
    [step |-> s + 1, epoch |-> e, arch |-> "ResUnet", state_dict |-> w,
     best_loss |-> b, optimizer |-> o]

\* the dict handed to torch.save
Record(s, e, w, b, o) ==
    [step |-> s, epoch |-> e, arch |-> "ResUnet", state_dict |-> w,
     best_loss |-> b, optimizer |-> o]

\* os.path.isfile(p)
IsFile(p) ==
    p \in DOMAIN files

\* --resume arguments tried that name no file
MissingArgs ==
    {SavePath(s) : s \in 0..1} \ DOMAIN files

Idle ==
    pc \in {"idle", "done", "failed"}

\* state shared by every way main() starts: lines 40-68 and 88-134
Begin(ne, r) ==
    /\ Idle
    /\ runs < MaxRuns
    /\ runs' = runs + 1
    /\ numEpochs' = ne
    /\ resume' = r
    /\ modelTraining' = TRUE
    /\ lr_scheduler' = NewScheduler
    /\ idx' = 0
    /\ curBatch' = 0
    /\ batchesDone' = 0
    /\ events' = <<>>
    /\ train_acc' = NoTracker
    /\ train_loss' = NoTracker
    /\ valid_metrics' = NoMetrics
    /\ valid_acc' = NoTracker
    /\ valid_loss' = NoTracker
    /\ valIdx' = 0
    /\ valFwd' = <<>>
    /\ valCall' = <<>>
    /\ UNCHANGED <<evalVars, envVars, mainVars, gradEnabled, storeVars>>

\* main() with resume == "" : `if resume:` is false
StartFresh(ne) ==
    /\ Begin(ne, <<>>)
    /\ checkpoint' = <<>>
    /\ best_loss' = Rat(InitBestLoss, 1)
    /\ start_epoch' = 0
    /\ epoch' = 0
    /\ weights' = 0
    /\ optState' = 0
    /\ step' = StartStep(<<>>)
    /\ pc' = "epoch"

\* `checkpoint["epoch"]`: the subscript succeeds iff the key is in the dict
HasEpoch(rec) ==
    "epoch" \in DOMAIN rec

\* a persisted record as another writer may leave it: every field but epoch
WithoutEpoch(rec) ==
    [f \in DOMAIN rec \ {"epoch"} |-> rec[f]]

\* the run resumed at the epoch after the persisted one
ResumeEpochNext(rec) ==
    rec.epoch + 1

\* `start_epoch = checkpoint["epoch"]`
ResumeEpoch(rec) ==
    rec.epoch

\* main() with resume naming a file: lines 71-84
StartResume(ne, p) ==
    /\ IsFile(p)
    /\ HasEpoch(files[p])
    /\ Begin(ne, p)
    /\ checkpoint' = <<files[p]>>
    /\ start_epoch' = ResumeEpoch(files[p])
    /\ epoch' = ResumeEpoch(files[p])
    /\ best_loss' = files[p].best_loss
    /\ weights' = files[p].state_dict
    /\ optState' = files[p].optimizer
    /\ step' = StartStep(<<files[p]>>)
    /\ pc' = "epoch"

\* main() with resume naming a file whose record has no "epoch" key:
\* torch.load at line 74 succeeds, `checkpoint["epoch"]` at line 75 raises
\* KeyError before anything of the record is applied
StartResumeKeyError(ne, p) ==
    /\ IsFile(p)
    /\ ~HasEpoch(files[p])
    /\ Begin(ne, p)
    /\ checkpoint' = <<files[p]>>
    /\ best_loss' = Rat(InitBestLoss, 1)
    /\ start_epoch' = 0
    /\ epoch' = 0
    /\ weights' = 0
    /\ optState' = 0
    /\ step' = 0
    /\ pc' = "failed"

\* main() with a non-empty resume that names no file, run as the script:
\* line 86 prints and the run goes on with the starting parameters
StartMissing(ne, p) ==
    /\ ~IsFile(p)
    /\ Begin(ne, p)
    /\ checkpoint' = <<>>
    /\ best_loss' = Rat(InitBestLoss, 1)
    /\ start_epoch' = 0
    /\ epoch' = 0
    /\ weights' = 0
    /\ optState' = 0
    /\ step' = StartStep(<<>>)
    /\ pc' = "epoch"

\* the same call made from another module: line 86 reads the global `args`,
\* which only the script's __main__ block defines, and raises NameError
StartMissingNameError(ne, p) ==
    /\ ~IsFile(p)
    /\ Begin(ne, p)
    /\ checkpoint' = <<>>
    /\ best_loss' = Rat(InitBestLoss, 1)
    /\ start_epoch' = 0
    /\ epoch' = 0
    /\ weights' = 0
    /\ optState' = 0
    /\ step' = 0
    /\ pc' = "failed"

\* `for epoch in range(start_epoch, num_epochs)` yields: lines 135-148
EpochBegin ==
    /\ pc = "epoch"
    /\ epoch < numEpochs
    /\ train_acc' = NewTracker
    /\ train_loss' = NewTracker
    /\ idx' = 0
    /\ pc' = "batch"
    /\ UNCHANGED <<evalVars, envVars, mainVars, runs, numEpochs, resume, checkpoint, start_epoch, epoch,
                   step, curBatch, batchesDone, modelVars, valVars, storeVars,
                   best_loss, lr_scheduler, events>>

\* the range is exhausted: main() returns
Finish ==
    /\ pc = "epoch"
    /\ epoch >= numEpochs
    /\ pc' = "done"
    /\ UNCHANGED <<evalVars, envVars, mainVars, runs, numEpochs, resume, checkpoint, start_epoch,
                   loopVars, modelVars, trainTrackers, valVars, storeVars,
                   best_loss, lr_scheduler, events>>

\* `for idx, data in enumerate(loader)` yields the next batch: line 149
Fetch ==
    /\ pc = "batch"
    /\ idx < NumBatches(nTrain, batchSize)
    /\ curBatch' = BatchSizeAt(nTrain, batchSize, idx)
    /\ events' = <<>>
    /\ pc' = "train"
    /\ UNCHANGED <<evalVars, envVars, mainVars, runs, numEpochs, resume, checkpoint, start_epoch, epoch,
                   step, idx, batchesDone, modelVars, trainTrackers, valVars,
                   storeVars, best_loss, lr_scheduler>>

\* the loader is exhausted: the epoch loop takes its next value
EpochEnd ==
    /\ pc = "batch"
    /\ idx >= NumBatches(nTrain, batchSize)
    /\ epoch' = epoch + 1
    /\ pc' = "epoch"
    /\ UNCHANGED <<evalVars, envVars, mainVars, runs, numEpochs, resume, checkpoint, start_epoch,
                   step, idx, curBatch, batchesDone, modelVars, trainTrackers,
                   valVars, storeVars, best_loss, lr_scheduler, events>>

\* lines 152-183: zero_grad, forward, loss, backward, optimizer.step, the two
\* tracker updates, then the validation test
TrainStep(o) ==
    /\ pc = "train"
    /\ weights' = weights + 1
    /\ optState' = optState + 1
    /\ train_acc' = TrackerUpdate(train_acc, o.dice, curBatch)
    /\ train_loss' = TrackerUpdate(train_loss, o.loss, curBatch)
    /\ batchesDone' = batchesDone + 1
    /\ pc' = IF ValidationDue(step) THEN "validation" ELSE "incr"
    /\ UNCHANGED <<evalVars, envVars, mainVars, runs, numEpochs, resume, checkpoint, start_epoch, epoch,
                   step, idx, curBatch, modelTraining, gradEnabled, valVars,
                   storeVars, best_loss, lr_scheduler, events>>

\* the training state as the caller holds it
TrainState ==
    [step |-> step, epoch |-> epoch, idx |-> idx, best_loss |-> best_loss,
     train_acc |-> train_acc, train_loss |-> train_loss,
     weights |-> weights, optState |-> optState]

\* validation() going on from the training aggregator
ValidationTrackerShared(t) ==
    t

\* `valid_acc = metrics.MetricTracker()`: an aggregator of its own, whatever
\* the training one holds
ValidationTracker(t) ==
    NewTracker

\* validation() is entered: lines 212-216
ValidationEnter ==
    /\ pc = "validation"
    /\ valid_acc' = ValidationTracker(train_acc)
    /\ valid_loss' = ValidationTracker(train_loss)
    /\ modelTraining' = FALSE
    /\ valIdx' = 0
    /\ valFwd' = <<>>
    /\ valCall' = <<TrainState>>
    /\ pc' = "val_batch"
    /\ UNCHANGED <<evalVars, envVars, mainVars, runs, numEpochs, resume, checkpoint, start_epoch,
                   loopVars, gradEnabled, weights, optState, trainTrackers,
                   valid_metrics, storeVars, best_loss, lr_scheduler, events>>

\* one iteration of the loop over valid_loader: lines 219-234
ValBatch(o) ==
    /\ pc = "val_batch"
    /\ valIdx < NumBatches(nVal, batchSize)
    /\ valFwd' = Append(valFwd, [idx |-> valIdx, grad |-> gradEnabled,
                                 training |-> modelTraining])
    /\ valid_acc' = TrackerUpdate(valid_acc, o.dice, BatchSizeAt(nVal, batchSize, valIdx))
    /\ valid_loss' = TrackerUpdate(valid_loss, o.loss, BatchSizeAt(nVal, batchSize, valIdx))
    /\ valIdx' = valIdx + 1
    /\ UNCHANGED <<evalVars, envVars, mainVars, runVars, loopVars, modelVars, trainTrackers,
                   valid_metrics, valCall, storeVars, best_loss, lr_scheduler, events>>

\* valid_loader is exhausted: lines 239-241, and the result is bound to
\* valid_metrics at line 184; the two local trackers die with the call
ValidationReturn ==
    /\ pc = "val_batch"
    /\ valIdx >= NumBatches(nVal, batchSize)
    /\ modelTraining' = ModeAfterValidation
    /\ valid_metrics' = [valid_loss |-> TrackerAvg(valid_loss),
                         valid_acc |-> TrackerAvg(valid_acc)]
    /\ valid_acc' = NoTracker
    /\ valid_loss' = NoTracker
    /\ events' = Append(events, Ev("validation", TrackerAvg(valid_loss), <<>>, step))
    /\ pc' = "lr_step"
    /\ UNCHANGED <<evalVars, envVars, mainVars, runs, numEpochs, resume, checkpoint, start_epoch,
                   loopVars, gradEnabled, weights, optState, trainTrackers,
                   valIdx, valFwd, valCall, storeVars, best_loss, lr_scheduler>>

\* `lr_scheduler.step(valid_metrics["valid_loss"])`: line 187
LrStep ==
    /\ pc = "lr_step"
    /\ lr_scheduler' = SchedStep(lr_scheduler, valid_metrics.valid_loss)
    /\ events' = Append(events, Ev("lr_step", valid_metrics.valid_loss, <<>>, step))
    /\ pc' = "save"
    /\ UNCHANGED <<evalVars, envVars, mainVars, runs, numEpochs, resume, checkpoint, start_epoch,
                   loopVars, modelVars, trainTrackers, valVars, storeVars, best_loss>>

\* lines 188-204: the path, the best_loss update, torch.save
Save ==
    /\ pc = "save"
    /\ LET b == BestLossUpdate(valid_metrics.valid_loss, best_loss)
           path == SavePath(step)
           rec == Record(step, epoch, weights, b, optState)
       IN  /\ best_loss' = b
           /\ files' = [q \in DOMAIN files \cup {path} |->
                            IF q = path THEN rec ELSE files[q]]
           /\ lastSave' = <<[run |-> runs, path |-> path, rec |-> rec,
                             existed |-> IsFile(path),
                             prevRun |-> IF lastSave = <<>> THEN 0 ELSE lastSave[1].run,
                             prev |-> IF lastSave = <<>> THEN <<>> ELSE <<lastSave[1].rec>>]>>
           /\ events' = Append(events, Ev("save", b, path, rec.step))
    /\ pc' = "incr"
    /\ UNCHANGED <<evalVars, envVars, mainVars, runs, numEpochs, resume, checkpoint, start_epoch,
                   loopVars, modelVars, trainTrackers, valVars, lr_scheduler>>

\* `step += 1` at line 206, and enumerate() advancing idx
Incr ==
    /\ pc = "incr"
    /\ step' = StepIncr(step)
    /\ idx' = idx + 1
    /\ pc' = "batch"
    /\ UNCHANGED <<evalVars, envVars, mainVars, runs, numEpochs, resume, checkpoint, start_epoch,
                   epoch, curBatch, batchesDone, modelVars, trainTrackers, valVars,
                   storeVars, best_loss, lr_scheduler, events>>

\* ------------------------------------------------------ eval.py evaluate()
trainVars == <<runVars, loopVars, trainTrackers, valVars, storeVars,
               best_loss, lr_scheduler, events>>

\* f"sample_{batch_idx * inputs.size(0) + i}.png": the name is the decimal
\* rendering of the index computed at line 90
OutFilename(bi, size0, i) ==
    Dec(bi * size0 + i)

\* float arithmetic on exact fractions: a + b, a * k, a / k
RAdd(a, b) ==
    Rat(a.n * b.d + b.n * a.d, a.d * b.d)

RScale(a, k) ==
    Rat(a.n * k, a.d)

RDiv(a, k) ==
    Rat(a.n, a.d * k)

\* the elements of the [B, 1, H, W] tensors of a batch of b samples
Elems(b) ==
    1..(b * maskElems)

\* `preds = (outputs > 0.6).float()`, probabilities in tenths
Binarize(outputs) ==
    [k \in DOMAIN outputs |-> IF outputs[k] > Threshold THEN 1 ELSE 0]

\* metrics.dice_coeff(preds, labels): 2|P n T| / (|P| + |T|), and 1.0 when
\* both masks are empty
DiceCoeff(P, T) ==
    LET inter == Cardinality({k \in DOMAIN P : P[k] = 1 /\ T[k] = 1})
        total == Cardinality({k \in DOMAIN P : P[k] = 1})
                     + Cardinality({k \in DOMAIN T : T[k] = 1})
    IN  IF total = 0 THEN Rat(1, 1) ELSE Rat(2 * inter, total)

\* only the elements where both masks are foreground are counted
CountBothForeground(P, T) ==
    Cardinality({k \in DOMAIN P : P[k] = 1 /\ T[k] = 1})

\* `(preds == labels).float().sum().item()`
CountEqual(P, T) ==
    Cardinality({k \in DOMAIN P : P[k] = T[k]})

\* the running sum advanced by the batch value alone
AccumulateUnweighted(sum, val, n) ==
    RAdd(sum, val)

\* `dice_sum += dice * inputs.size(0)`, `hd95_sum += hd95 * inputs.size(0)`
Accumulate(sum, val, n) ==
    RAdd(sum, RScale(val, n))

\* a division that yields nan instead of raising
DivNeverRaises(n) ==
    FALSE

\* `x / n` on Python numbers raises ZeroDivisionError iff n == 0
DivRaises(n) ==
    n = 0

\* what one test batch of b samples holds: the sigmoid outputs and the mask,
\* element by element, and the value metrics.hd95_batch returns for them
EvalOutcomes(b) ==
    [outputs : [Elems(b) -> Probs], labels : [Elems(b) -> {0, 1}], hd95 : {0, 1}]

\* lines 30-40: model.eval(), the accumulators, entering torch.no_grad()
EvalBegin ==
    /\ ePc = "idle"
    /\ modelTraining' = FALSE
    /\ gradEnabled' = FALSE
    /\ dice_sum' = Rat(0, 1)
    /\ hd95_sum' = Rat(0, 1)
    /\ pixel_correct' = 0
    /\ pixel_total' = 0
    /\ num_samples' = 0
    /\ batch_idx' = 0
    /\ evalHist' = <<>>
    /\ allMatched' = TRUE
    /\ ePc' = "batch"
    /\ UNCHANGED <<envVars, mainVars, trainVars, weights, optState, nTest, evalB, sample_i,
                   outFiles, evalResult>>

\* `for batch_idx, data in enumerate(test_loader)` yields: lines 41-66
EvalBatch(o) ==
    /\ ePc = "batch"
    /\ batch_idx < NumBatches(nTest, batchSize)
    /\ LET b == BatchSizeAt(nTest, batchSize, batch_idx)
           preds == Binarize(o.outputs)
           dice == DiceCoeff(preds, o.labels)
           hd95 == Rat(o.hd95, 1)
       IN
       /\ o \in EvalOutcomes(b)
       /\ evalB' = b
       /\ dice_sum' = Accumulate(dice_sum, dice, b)
       /\ hd95_sum' = Accumulate(hd95_sum, hd95, b)
       /\ num_samples' = num_samples + b
       /\ pixel_correct' = pixel_correct + CountEqual(preds, o.labels)
       /\ pixel_total' = pixel_total + Cardinality(DOMAIN o.labels)
       /\ evalHist' = Append(evalHist, [dice |-> dice, hd95 |-> hd95, size |-> b])
       /\ allMatched' = (allMatched /\ preds = o.labels)
    /\ sample_i' = 0
    /\ ePc' = "write"
    /\ UNCHANGED <<envVars, mainVars, trainVars, modelVars, nTest, batch_idx, outFiles,
                   evalResult>>

\* one pass of `for i in range(inputs.size(0))`: lines 69-91; the image
\* written is that of the sample at position num_samples - size(0) + i of
\* the test set
EvalWrite ==
    /\ ePc = "write"
    /\ sample_i < evalB
    /\ LET name == OutFilename(batch_idx, evalB, sample_i)
           sample == num_samples - evalB + sample_i
       IN  outFiles' = [q \in DOMAIN outFiles \cup {name} |->
                            IF q = name THEN sample ELSE outFiles[q]]
    /\ sample_i' = sample_i + 1
    /\ UNCHANGED <<envVars, mainVars, trainVars, modelVars, nTest, ePc, batch_idx, evalB,
                   num_samples, dice_sum, hd95_sum, pixel_correct, pixel_total,
                   evalResult, evalHist, allMatched>>

\* the inner range is exhausted: enumerate() advances
EvalNextBatch ==
    /\ ePc = "write"
    /\ sample_i >= evalB
    /\ batch_idx' = batch_idx + 1
    /\ ePc' = "batch"
    /\ UNCHANGED <<envVars, mainVars, trainVars, modelVars, nTest, evalB, sample_i,
                   num_samples, dice_sum, hd95_sum, pixel_correct, pixel_total,
                   outFiles, evalResult, evalHist, allMatched>>

\* the loader is exhausted, no_grad() is left, lines 93-97 divide and return
EvalReturn ==
    /\ ePc = "batch"
    /\ batch_idx >= NumBatches(nTest, batchSize)
    /\ ~DivRaises(num_samples)
    /\ ~DivRaises(pixel_total)
    /\ gradEnabled' = TRUE
    /\ evalResult' = <<[avg_dice |-> RDiv(dice_sum, num_samples),
                        avg_hd95 |-> RDiv(hd95_sum, num_samples),
                        accuracy |-> Rat(pixel_correct, pixel_total)]>>
    /\ ePc' = "done"
    /\ UNCHANGED <<envVars, mainVars, trainVars, modelTraining, weights, optState, nTest,
                   batch_idx, evalB, sample_i, num_samples, dice_sum, hd95_sum,
                   pixel_correct, pixel_total, outFiles, evalHist, allMatched>>

\* the same with num_samples == 0: `dice_sum / num_samples` is 0.0 / 0,
\* which raises ZeroDivisionError
EvalZeroDivision ==
    /\ ePc = "batch"
    /\ batch_idx >= NumBatches(nTest, batchSize)
    /\ DivRaises(num_samples) \/ DivRaises(pixel_total)
    /\ gradEnabled' = TRUE
    /\ ePc' = "error"
    /\ UNCHANGED <<envVars, mainVars, trainVars, modelTraining, weights, optState, nTest,
                   batch_idx, evalB, sample_i, num_samples, dice_sum, hd95_sum,
                   pixel_correct, pixel_total, outFiles, evalResult, evalHist,
                   allMatched>>

\* --------------------------------------------------------- eval.py main()
\* `checkpoint.get("epoch", "N/A")`: the epoch, or nothing when the key is absent
GetEpoch(rec) ==
    IF HasEpoch(rec) THEN <<rec.epoch>> ELSE <<>>

\* lines 123-127: the file exists, its state_dict is loaded into the model
\* and the epoch is formatted into the message
EvalMainLoad(p) ==
    /\ mPc = "idle"
    /\ IsFile(p)
    /\ weights' = files[p].state_dict
    /\ shownEpoch' = GetEpoch(files[p])
    /\ mPc' = "loaded"
    /\ UNCHANGED <<envVars, trainVars, evalVars, modelTraining, gradEnabled, optState>>

\* lines 128-129: `raise ValueError("Checkpoint not found: ...")`
EvalMainMissing(p) ==
    /\ mPc = "idle"
    /\ ~IsFile(p)
    /\ mPc' = "error"
    /\ UNCHANGED <<envVars, trainVars, evalVars, modelVars, shownEpoch>>

\* ------------------------------------------------------------ specification
\* before the first invocation for an experiment name: no checkpoint exists
\* yet; a newly built model is in training mode and gradients are enabled
\* (torch defaults)
TrainIdle ==
    /\ pc = "idle"
    /\ runs = 0
    /\ files = <<>>
    /\ lastSave = <<>>
    /\ numEpochs = 0
    /\ resume = <<>>
    /\ checkpoint = <<>>
    /\ best_loss = Rat(InitBestLoss, 1)
    /\ start_epoch = 0
    /\ epoch = 0
    /\ step = 0
    /\ idx = 0
    /\ curBatch = 0
    /\ batchesDone = 0
    /\ modelTraining = TRUE
    /\ gradEnabled = TRUE
    /\ weights = 0
    /\ optState = 0
    /\ lr_scheduler = NewScheduler
    /\ train_acc = NoTracker
    /\ train_loss = NoTracker
    /\ valid_acc = NoTracker
    /\ valid_loss = NoTracker
    /\ valIdx = 0
    /\ valid_metrics = NoMetrics
    /\ valFwd = <<>>
    /\ valCall = <<>>
    /\ events = <<>>

EvalIdle ==
    /\ ePc = "idle"
    /\ batch_idx = 0
    /\ evalB = 0
    /\ sample_i = 0
    /\ num_samples = 0
    /\ dice_sum = Rat(0, 1)
    /\ hd95_sum = Rat(0, 1)
    /\ pixel_correct = 0
    /\ pixel_total = 0
    /\ outFiles = <<>>
    /\ evalResult = <<>>
    /\ evalHist = <<>>
    /\ allMatched = TRUE
    /\ mPc = "idle"
    /\ shownEpoch = <<>>

\* the image directories hold at least one sample each
Init ==
    /\ nTrain \in 1..MaxTrain
    /\ nVal \in 1..MaxVal
    /\ batchSize \in BatchSizes
    /\ valInterval \in Intervals
    /\ nTest = 0
    /\ maskElems = 1
    /\ TrainIdle
    /\ EvalIdle

Next ==
    \/ \E ne \in 0..MaxEpochs : StartFresh(ne)
    \/ \E ne \in 0..MaxEpochs : \E p \in DOMAIN files : StartResume(ne, p)
    \/ \E ne \in 0..MaxEpochs : \E p \in MissingArgs : StartMissing(ne, p)
    \/ \E ne \in 0..MaxEpochs : \E p \in MissingArgs : StartMissingNameError(ne, p)
    \/ EpochBegin
    \/ Finish
    \/ Fetch
    \/ EpochEnd
    \/ \E o \in Outcomes : TrainStep(o)
    \/ ValidationEnter
    \/ \E o \in Outcomes : ValBatch(o)
    \/ ValidationReturn
    \/ LrStep
    \/ Save
    \/ Incr

\* the life of one experiment name: up to MaxRuns invocations of train.py
Spec ==
    Init /\ [][Next]_vars

\* one invocation of train.py in a checkpoint directory that is still empty
NextRun ==
    \/ \E ne \in 0..MaxEpochs : pc = "idle" /\ StartFresh(ne)
    \/ \E ne \in 0..MaxEpochs : \E p \in MissingArgs : pc = "idle" /\ StartMissing(ne, p)
    \/ \E ne \in 0..MaxEpochs : \E p \in MissingArgs :
           pc = "idle" /\ StartMissingNameError(ne, p)
    \/ EpochBegin
    \/ Finish
    \/ Fetch
    \/ EpochEnd
    \/ \E o \in Outcomes : TrainStep(o)
    \/ ValidationEnter
    \/ \E o \in Outcomes : ValBatch(o)
    \/ ValidationReturn
    \/ LrStep
    \/ Save
    \/ Incr

SpecRun ==
    Init /\ [][NextRun]_vars

\* one call of evaluate() on a test loader of nTest samples
InitEval ==
    /\ nTrain = 1
    /\ nVal = 1
    /\ valInterval = 1
    /\ batchSize \in BatchSizes
    /\ nTest \in 0..MaxTest
    /\ maskElems \in MaskShapes
    /\ TrainIdle
    /\ EvalIdle

NextEval ==
    \/ EvalBegin
    \/ \E b \in BatchSizes : \E o \in EvalOutcomes(b) : EvalBatch(o)
    \/ EvalWrite
    \/ EvalNextBatch
    \/ EvalReturn
    \/ EvalZeroDivision

SpecEval ==
    InitEval /\ [][NextEval]_vars

\* the synthetic-dataset scenario: 10 training samples, validation_interval 5,
\* a batch size that divides 10, one invocation in an empty directory
InitScenario ==
    /\ nTrain = 10
    /\ nVal \in 1..MaxVal
    /\ batchSize \in {1, 2, 5, 10}
    /\ valInterval = 5
    /\ nTest = 0
    /\ maskElems = 1
    /\ TrainIdle
    /\ EvalIdle

SpecScenario ==
    InitScenario /\ [][NextRun]_vars

\* a checkpoint directory holding one record at the path of step 0, written
\* after one optimizer step, with or without the epoch field
StoredRecords ==
    LET full == {Record(0, e, 1, Rat(1, 1), 1) : e \in 0..MaxEpochs}
    IN  full \cup {WithoutEpoch(r) : r \in full}

\* the record is put in the empty directory before either program starts
StoreRecord(r) ==
    /\ pc = "idle"
    /\ mPc = "idle"
    /\ files = <<>>
    /\ files' = [q \in {SavePath(0)} |-> r]
    /\ UNCHANGED <<evalVars, mainVars, envVars, runVars, loopVars, modelVars,
                   trainTrackers, valVars, lastSave, best_loss, lr_scheduler, events>>

InitLoad ==
    /\ nTrain \in 1..MaxTrain
    /\ nVal \in 1..MaxVal
    /\ batchSize \in BatchSizes
    /\ valInterval \in Intervals
    /\ nTest = 0
    /\ maskElems = 1
    /\ TrainIdle
    /\ EvalIdle

\* neither program has been started
Unread ==
    pc = "idle" /\ mPc = "idle"

\* either program on that directory: one invocation of train.py, with
\* --resume or without, or one of eval.py with --model
NextLoad ==
    \/ \E r \in StoredRecords : StoreRecord(r)
    \/ \E ne \in 0..MaxEpochs : Unread /\ StartFresh(ne)
    \/ \E ne \in 0..MaxEpochs : \E p \in DOMAIN files : Unread /\ StartResume(ne, p)
    \/ \E ne \in 0..MaxEpochs : \E p \in DOMAIN files :
           Unread /\ StartResumeKeyError(ne, p)
    \/ \E p \in DOMAIN files : Unread /\ EvalMainLoad(p)
    \/ \E p \in MissingArgs : Unread /\ EvalMainMissing(p)
    \/ EpochBegin
    \/ Finish
    \/ Fetch
    \/ EpochEnd
    \/ \E o \in Outcomes : TrainStep(o)
    \/ ValidationEnter
    \/ \E o \in Outcomes : ValBatch(o)
    \/ ValidationReturn
    \/ LrStep
    \/ Save
    \/ Incr

SpecLoad ==
    InitLoad /\ [][NextLoad]_vars

\* the steps of a started run: main() is sequential code over finite loaders,
\* so a run that can take its next step does take it
LoopNext ==
    \/ EpochBegin
    \/ Finish
    \/ Fetch
    \/ EpochEnd
    \/ \E o \in Outcomes : TrainStep(o)
    \/ ValidationEnter
    \/ \E o \in Outcomes : ValBatch(o)
    \/ ValidationReturn
    \/ LrStep
    \/ Save
    \/ Incr

SpecLoadFair ==
    InitLoad /\ [][NextLoad]_vars /\ WF_vars(LoopNext)

\* ------------------------------------------------------------------- claims
InLoop ==
    pc \in {"batch", "train", "validation", "val_batch", "lr_step", "save", "incr"}

Resumed ==
    checkpoint # <<>>

SavedThisRun ==
    lastSave # <<>> /\ lastSave[1].run = runs

\* the best_loss a run starts from: 999, or the loaded record's
StartBest ==
    IF Resumed THEN checkpoint[1].best_loss ELSE Rat(InitBestLoss, 1)

\* C1: in a run resumed from a record whose step field is s, the first batch
\* processed is numbered s + 1 (the counter is restored, it does not restart
\* at 0).
C1_ResumeContinuesStep ==
    (Resumed /\ pc = "train" /\ batchesDone = 0) => step = checkpoint[1].step + 1

\* C2: with a non-empty resume path that names no file, the run never enters
\* the epoch loop and never writes a checkpoint.
C2_MissingResumeIsFatal ==
    (resume # <<>> /\ ~Resumed) => (~InLoop /\ ~SavedThisRun)

\* C3: no checkpoint save targets a path at which a file already exists.
C3_NeverOverwritten ==
    lastSave # <<>> => ~lastSave[1].existed

C5_OneFilePerSample ==
    ePc = "done" =>
        /\ Cardinality(DOMAIN outFiles) = nTest
        /\ \A k \in 0..(nTest - 1) : Dec(k) \in DOMAIN outFiles /\ outFiles[Dec(k)] = k

\* C6: when the step counter is about to advance, the batch was followed by
\* a validation round iff step is a multiple of validation_interval, and then
\* by exactly: the validation, one scheduler step fed its loss, one save to
\* the path of the current step holding the current step.
C6_ValidationCadence ==
    pc = "incr" =>
        IF step % valInterval = 0
        THEN /\ events = << Ev("validation", valid_metrics.valid_loss, <<>>, step),
                            Ev("lr_step", valid_metrics.valid_loss, <<>>, step),
                            Ev("save", best_loss, Fmt04(step), step) >>
             /\ Fmt04(step) \in DOMAIN files
             /\ files[Fmt04(step)].step = step
             /\ SavedThisRun /\ lastSave[1].path = Fmt04(step)
        ELSE events = <<>>

\* a validation round at a later step than 0 has been followed by its
\* scheduler step and save
C6_Witness ==
    pc = "incr" /\ step > 0 /\ step % valInterval = 0 /\ Len(events) = 3

\* C7: when main() returns after processing batches, the most recent
\* checkpoint was written by this run and holds the parameters as they are
\* after the last batch.
C7_TerminalCheckpointCurrent ==
    (pc = "done" /\ batchesDone > 0) =>
        (SavedThisRun /\ lastSave[1].rec.state_dict = weights)

Scenario ==
    resume = <<>> /\ numEpochs = 2

\* C8 (as claimed): the scenario run ends with exactly 2 checkpoint files.
C8_Original ==
    (Scenario /\ pc = "done") => Cardinality(DOMAIN files) = 2

\* C8 (amended): the scenario run processes 20 / batch_size batches and ends
\* with one file per step 0, 5, 10, ... below that count: 4, 2, 1, 1 files for
\* batch sizes 1, 2, 5, 10 (2 only for batch size 2); the records are written
\* with strictly increasing steps and non-increasing best_loss.
C8_Amended ==
    Scenario =>
        /\ pc = "done" =>
            /\ DOMAIN files = {Fmt04(5 * k) : k \in 0..(((20 \div batchSize) + 4) \div 5 - 1)}
            /\ Cardinality(DOMAIN files) =
                   CASE batchSize = 1 -> 4 [] batchSize = 2 -> 2 [] OTHER -> 1
            /\ \A p \in DOMAIN files : p = Fmt04(files[p].step)
        /\ (lastSave # <<>> /\ lastSave[1].prev # <<>>) =>
            /\ lastSave[1].prev[1].step < lastSave[1].rec.step
            /\ RLeq(lastSave[1].rec.best_loss, lastSave[1].prev[1].best_loss)

\* the batch-size-2 scenario run has ended with its two files
C8_Witness ==
    Scenario /\ pc = "done" /\ batchSize = 2 /\ Cardinality(DOMAIN files) = 2

\* C9: the model is in training mode at every training forward pass and
\* whenever validation() has returned; it is in inference mode only inside a
\* validation pass.
C9_TrainingMode ==
    /\ pc \in {"train", "lr_step"} => modelTraining
    /\ ~modelTraining => pc = "val_batch"

\* a training batch is about to run after a validation pass with forward passes
C9_Witness ==
    pc = "train" /\ batchesDone > 0 /\ valFwd # <<>> /\ modelTraining

\* C10: every forward pass of a validation pass runs with gradients disabled,
\* and a round visits each validation batch exactly once, in order.
C10_ValidationNoGrad ==
    /\ \A i \in DOMAIN valFwd : ~valFwd[i].grad
    /\ pc = "lr_step" =>
          /\ Len(valFwd) = NumBatches(nVal, batchSize)
          /\ \A i \in DOMAIN valFwd : valFwd[i].idx = i - 1

\* C11: a reader given an existing checkpoint whose record lacks the epoch
\* field does not fail: the training resume goes on into its epoch loop and
\* the evaluation entry point loads the parameters with the epoch unknown.
C11_ReadersAcceptNoEpoch ==
    /\ (Resumed /\ ~HasEpoch(checkpoint[1])) => pc # "failed"
    /\ (mPc = "loaded" /\ \A p \in DOMAIN files : ~HasEpoch(files[p])) =>
           shownEpoch = <<>>
    /\ (mPc = "error") => MissingArgs # {}

\* C12: evaluate() on a test loader that yields no batches ends in
\* ZeroDivisionError at the first average; it never returns a metric triple.
C12_EmptyLoaderFails ==
    nTest = 0 =>
        /\ ePc # "done"
        /\ evalResult = <<>>
        /\ (ePc = "batch" /\ batch_idx >= NumBatches(nTest, batchSize)) =>
               (ENABLED EvalZeroDivision /\ ~ENABLED EvalReturn)

\* evaluate() has failed on the empty loader
C12_Witness ==
    nTest = 0 /\ ePc = "error" /\ num_samples = 0 /\ evalResult = <<>>

\* sum of the batch sizes of a history, product of the denominators of its
\* values, and sum of value * size over that common denominator
RECURSIVE HistSize(_)
HistSize(h) ==
    IF h = <<>> THEN 0 ELSE HistSize(SubSeq(h, 1, Len(h) - 1)) + h[Len(h)].size

RECURSIVE HistDen(_, _)
HistDen(h, f) ==
    IF h = <<>> THEN 1 ELSE HistDen(SubSeq(h, 1, Len(h) - 1), f) * h[Len(h)][f].d

RECURSIVE HistNum(_, _, _)
HistNum(h, f, D) ==
    IF h = <<>> THEN 0
    ELSE HistNum(SubSeq(h, 1, Len(h) - 1), f, D)
             + h[Len(h)][f].n * h[Len(h)].size * (D \div h[Len(h)][f].d)

WeightedMean(h, f) ==
    Rat(HistNum(h, f, HistDen(h, f)), HistDen(h, f) * HistSize(h))

\* C13: over the batches seen, of sizes b_i and values v_i, evaluate() returns
\* sum(v_i * b_i) / sum(b_i) for the dice coefficient and for hd95, and the
\* count it divides by is the number of samples seen (the whole test set).
C13_WeightedMean ==
    /\ num_samples = HistSize(evalHist)
    /\ \A i \in DOMAIN evalHist :
           evalHist[i].size = BatchSizeAt(nTest, batchSize, i - 1) /\ evalHist[i].size >= 1
    /\ ePc = "done" =>
           /\ Len(evalHist) = NumBatches(nTest, batchSize)
           /\ num_samples = nTest
           /\ evalResult[1].avg_dice = WeightedMean(evalHist, "dice")
           /\ evalResult[1].avg_hd95 = WeightedMean(evalHist, "hd95")

\* evaluate() has returned after two batches of different sizes and values
C13_Witness ==
    /\ ePc = "done"
    /\ Len(evalHist) = 2
    /\ evalHist[1].size # evalHist[2].size
    /\ evalHist[1].dice # evalHist[2].dice
    /\ evalHist[1].hd95 # evalHist[2].hd95

\* C14: pixel_correct <= pixel_total after every batch, with equality exactly
\* when every element of every batch so far had preds == labels; and when
\* that is so at the end, evaluate() returns accuracy 1.0 and dice 1.0.
C14_PixelAccuracy ==
    /\ pixel_correct <= pixel_total
    /\ (pixel_correct = pixel_total) <=> allMatched
    /\ pixel_total = num_samples * maskElems
    /\ (ePc = "done" /\ allMatched) =>
           /\ evalResult[1].accuracy = Rat(1, 1)
           /\ evalResult[1].avg_dice = Rat(1, 1)

\* evaluate() has returned from a whole test set of matching batches
C14_Witness ==
    /\ ePc = "done"
    /\ allMatched
    /\ nTest = MaxTest
    /\ maskElems > 1
    /\ pixel_total = MaxTest * maskElems
    /\ evalResult[1].accuracy = Rat(1, 1)

\* the counters of a run against the batches whose optimizer step it has
\* applied: between the optimizer step and `step += 1` the batch is counted
\* and step is not yet advanced
C15_Counters ==
    LET nb == NumBatches(nTrain, batchSize)
        passes == epoch - start_epoch
        due == IF numEpochs > start_epoch THEN numEpochs - start_epoch ELSE 0
        open == IF pc \in {"validation", "val_batch", "lr_step", "save", "incr"}
                THEN 1 ELSE 0
    IN  pc \notin {"idle", "failed"} =>
            /\ step = batchesDone - open
            /\ batchesDone = passes * nb
                                + (IF pc \in {"epoch", "done"} THEN 0 ELSE idx + open)
            /\ passes >= 0 /\ passes <= due
            /\ pc = "done" => (passes = due /\ step = batchesDone /\ step = due * nb)

\* C15: in a run step is the number of batches processed (one per batch,
\* nothing else moves it) and epoch is start_epoch plus the full passes made;
\* every started run returns, after exactly max(0, num_epochs - start_epoch)
\* full passes, with step equal to the number of batches it processed.
C15_StepEpochTermination ==
    [](C15_Counters) /\ ((pc = "epoch") ~> (pc = "done"))

\* a resumed run has returned after the passes left to it
C15_Witness ==
    /\ pc = "done"
    /\ Resumed
    /\ start_epoch > 0
    /\ numEpochs > start_epoch
    /\ step = (numEpochs - start_epoch) * NumBatches(nTrain, batchSize)
    /\ step > 1

\* C16: a run resumed from a record with epoch e starts its epoch loop at e
\* with the first batch of the loader, makes exactly num_epochs - e full
\* passes, and when e >= num_epochs processes no batch and writes no file.
C16_ResumeAtPersistedEpoch ==
    (Resumed /\ pc # "failed") =>
        LET e == checkpoint[1].epoch
            nb == NumBatches(nTrain, batchSize)
        IN  /\ start_epoch = e
            /\ (pc = "train" /\ batchesDone = 0) => (epoch = e /\ idx = 0)
            /\ (pc = "batch" /\ epoch = e) => batchesDone = idx
            /\ (pc = "done" /\ e < numEpochs) =>
                   (epoch = numEpochs /\ batchesDone = (numEpochs - e) * nb)
            /\ e >= numEpochs =>
                   /\ pc \in {"epoch", "done"}
                   /\ epoch = e
                   /\ batchesDone = 0
                   /\ ~SavedThisRun
                   /\ files[resume] = checkpoint[1]

\* a run resumed at an epoch that is not below num_epochs has returned
C16_Witness ==
    /\ Resumed
    /\ pc = "done"
    /\ numEpochs > 0
    /\ checkpoint[1].epoch >= numEpochs
    /\ batchesDone = 0
    /\ lastSave = <<>>

\* samples in the first k batches of a loader over n samples
SamplesIn(n, k) ==
    IF k * batchSize <= n THEN k * batchSize ELSE n

\* C17: inside validation() and when it has returned, step, epoch, best_loss,
\* the two training aggregators and the parameters are what they were at the
\* call; the pass's own aggregators start empty and hold the validation
\* batches of this pass only, the training ones the training batches only.
C17_ValidationFrame ==
    /\ pc \in {"val_batch", "lr_step", "save"} =>
           (valCall # <<>> /\ TrainState = valCall[1])
    /\ pc = "val_batch" =>
           /\ valIdx = 0 => (valid_acc = NewTracker /\ valid_loss = NewTracker)
           /\ valid_acc.count = SamplesIn(nVal, valIdx)
           /\ valid_loss.count = SamplesIn(nVal, valIdx)
           /\ train_acc.count = SamplesIn(nTrain, idx + 1)
           /\ train_loss.count = SamplesIn(nTrain, idx + 1)

\* a second validation pass of the run has returned
C17_Witness ==
    /\ pc = "lr_step"
    /\ step > 0
    /\ valCall # <<>>
    /\ valCall[1].train_loss.count > 0
    /\ Len(valFwd) = NumBatches(nVal, batchSize)
    /\ SavedThisRun

\* the number a sequence of decimal digits denotes
RECURSIVE ParseDec(_)
ParseDec(d) ==
    IF d = <<>> THEN 0 ELSE ParseDec(SubSeq(d, 1, Len(d) - 1)) * 10 + d[Len(d)]

\* C18: a record just written has the step its file name shows, follows
\* exactly step + 1 optimizer steps of this run, carries the epoch in
\* progress, the parameters and the optimizer state as they are, and a
\* best_loss that is the live one and <= the validation loss of its round;
\* and every file of the directory holds the step of its name.
C18_RecordConsistent ==
    /\ \A p \in DOMAIN files : ParseDec(p) = files[p].step
    /\ (pc = "incr" /\ events # <<>>) =>
           /\ SavedThisRun
           /\ LET rec == lastSave[1].rec IN
              /\ files[lastSave[1].path] = rec
              /\ ParseDec(lastSave[1].path) = rec.step
              /\ rec.step = step
              /\ batchesDone = rec.step + 1
              /\ rec.epoch = epoch
              /\ rec.epoch < numEpochs
              /\ rec.state_dict = weights
              /\ rec.optimizer = optState
              /\ rec.best_loss = best_loss
              /\ RLeq(rec.best_loss, valid_metrics.valid_loss)

\* a resumed run has written, at a later step than 0, a record whose
\* best_loss is below the validation loss of its round
C18_Witness ==
    /\ pc = "incr"
    /\ Resumed
    /\ SavedThisRun
    /\ lastSave[1].rec.step > 0
    /\ lastSave[1].rec.step = step
    /\ RLess(lastSave[1].rec.best_loss, valid_metrics.valid_loss)

====
